---- MODULE Spec2Model ----
(***************************************************************************)
(* Model of build.py: the module-level platform match that binds           *)
(* LIB_SOURCE_NAME / LIB_TARGET_NAME, and main(), which runs                *)
(* `cargo build --release`, checks its return code and copies              *)
(* target/release/<LIB_SOURCE_NAME> to lua/<LIB_TARGET_NAME>.               *)
(* The file system, the cargo child process and the interpreter's exit     *)
(* status are the environment the script acts on.                          *)
(***************************************************************************)
EXTENDS Integers, Sequences, FiniteSets, TLC

\* ---------------------------------------------------------------- bounds
\* Longest file content modelled (in bytes).
MaxLen == 1
\* Number of times the script is invoked in one behaviour.
MaxRuns == 2

\* ------------------------------------------------------------- constants
LIBRARY_NAME == "wikiplugin_internal"

\* Exit status of the interpreter when the script runs to its end.
ExitSuccess == 0
\* Exit status of the interpreter when an exception is not caught.
ExitUncaught == 1

\* sys.platform values the script may be started with; "freebsd" stands
\* for every value the match statement has no case for.
Platforms == {"linux", "darwin", "win32", "freebsd"}

\* Return codes of the cargo child process: 0, a generic failure, the status
\* cargo uses for a failed build, and a negative value (killed by a signal).
ReturnCodes == {0, 1, 101, -9}

\* ------------------------------------------------------------ file system
\* Byte values file contents are built from.
Bytes == {0, 255}

Contents == UNION {[1..n -> Bytes] : n \in 0..MaxLen}

NoFile == [exists |-> FALSE, data |-> <<>>]

File(d) == [exists |-> TRUE, data |-> d]

Files == {NoFile} \cup {File(d) : d \in Contents}

\* os.path.join: a path is the sequence of its components.
Join2(a, b) == <<a, b>>

Join3(a, b, c) == <<a, b, c>>

\* Value of LIB_SOURCE_NAME / LIB_TARGET_NAME before the match binds them.
Unbound == "<unbound>"

\* Variant: the default case falls back to the Linux names instead of raising.
ResolvePlatformNames_Fallback(p) ==
    CASE p = "darwin" -> [ok |-> TRUE,
                          source |-> "lib" \o LIBRARY_NAME \o ".dylib",
                          target |-> LIBRARY_NAME \o ".so"]
      [] p = "win32"  -> [ok |-> TRUE,
                          source |-> LIBRARY_NAME \o ".dll",
                          target |-> LIBRARY_NAME \o ".dll"]
      [] OTHER        -> [ok |-> TRUE,
                          source |-> "lib" \o LIBRARY_NAME \o ".so",
                          target |-> LIBRARY_NAME \o ".so"]

\* Variant: the darwin case expects the Linux artifact name.
ResolvePlatformNames_DarwinSo(p) ==
    CASE p \in {"linux", "darwin"} ->
                         [ok |-> TRUE,
                          source |-> "lib" \o LIBRARY_NAME \o ".so",
                          target |-> LIBRARY_NAME \o ".so"]
      [] p = "win32"  -> [ok |-> TRUE,
                          source |-> LIBRARY_NAME \o ".dll",
                          target |-> LIBRARY_NAME \o ".dll"]
      [] OTHER        -> [ok |-> FALSE, source |-> Unbound, target |-> Unbound]

\* The module-level match statement as a function of sys.platform.
ResolvePlatformNames(p) ==
    CASE p = "linux"  -> [ok |-> TRUE,
                          source |-> "lib" \o LIBRARY_NAME \o ".so",
                          target |-> LIBRARY_NAME \o ".so"]
      [] p = "darwin" -> [ok |-> TRUE,
                          source |-> "lib" \o LIBRARY_NAME \o ".dylib",
                          target |-> LIBRARY_NAME \o ".so"]
      [] p = "win32"  -> [ok |-> TRUE,
                          source |-> LIBRARY_NAME \o ".dll",
                          target |-> LIBRARY_NAME \o ".dll"]
      [] OTHER        -> [ok |-> FALSE, source |-> Unbound, target |-> Unbound]

SourceNames == {ResolvePlatformNames(p).source : p \in {"linux", "darwin", "win32"}}

TargetNames == {ResolvePlatformNames(p).target : p \in {"linux", "darwin", "win32"}}

SourcePaths == {Join3("target", "release", n) : n \in SourceNames}

TargetPaths == {Join2("lua", n) : n \in TargetNames}

Paths == SourcePaths \cup TargetPaths

\* ------------------------------------------------------------------ state
VARIABLES
    platform,         \* sys.platform
    pc,               \* position in the script
    LIB_SOURCE_NAME,  \* module global
    LIB_TARGET_NAME,  \* module global
    returncode,       \* cargo.returncode, <<>> until subprocess.run returns
    built,            \* the file cargo left at the source path, <<>> before
    fs,               \* file system: path -> file
    cargoInstalled,   \* whether the `cargo` executable can be started
    luaDir,           \* state of the lua/ directory: "ok", "missing", "nospace"
    raised,           \* the uncaught exception, <<>> when none
    exitCode,         \* exit status of the process, <<>> while it runs
    log,              \* steps started in this run, in order
    run,              \* number of this invocation of the script
    start,            \* file system when this run began
    prevExit          \* exit status of the previous run, <<>> when none

vars == <<platform, pc, LIB_SOURCE_NAME, LIB_TARGET_NAME, returncode, built, fs,
          cargoInstalled, luaDir, raised, exitCode, log, run, start, prevExit>>

\* Paths main() builds from the module globals.
SourcePath == Join3("target", "release", LIB_SOURCE_NAME)

TargetPath == Join2("lua", LIB_TARGET_NAME)

\* Files found when the script starts: possibly an artifact of an earlier
\* build of this platform under target/release (of any platform when the
\* platform is not supported) and possibly a published library under lua/.
InitSourcePaths(p) ==
    IF ResolvePlatformNames(p).ok
    THEN {Join3("target", "release", ResolvePlatformNames(p).source)}
    ELSE SourcePaths

Init ==
    /\ platform \in Platforms
    /\ pc = "match"
    /\ LIB_SOURCE_NAME = Unbound
    /\ LIB_TARGET_NAME = Unbound
    /\ returncode = <<>>
    /\ built = <<>>
    /\ \E s \in InitSourcePaths(platform), t \in TargetPaths,
          fsrc \in Files, fdst \in Files :
          fs = [p \in Paths |-> IF p = s THEN fsrc ELSE IF p = t THEN fdst ELSE NoFile]
    /\ cargoInstalled \in BOOLEAN
    /\ luaDir \in {"ok", "missing", "nospace"}
    /\ raised = <<>>
    /\ exitCode = <<>>
    /\ log = <<>>
    /\ run = 1
    /\ start = fs
    /\ prevExit = <<>>

\* Steps of the run so far.
Started(step) == \E i \in DOMAIN log : log[i] = step

Count(step) == Cardinality({i \in DOMAIN log : log[i] = step})

Exited == pc = "exited"

Supported == {"linux", "darwin", "win32"}

\* Variant: the exception is reported but the process exits with status 0.
Raise_ExitZero(type, msg) ==
    /\ raised' = <<[type |-> type, msg |-> msg]>>
    /\ exitCode' = <<ExitSuccess>>
    /\ pc' = "exited"

\* An exception nobody catches: the traceback is printed and the
\* interpreter exits with status 1.
Raise(type, msg) ==
    /\ raised' = <<[type |-> type, msg |-> msg]>>
    /\ exitCode' = <<ExitUncaught>>
    /\ pc' = "exited"

\* Lines 10-21: the match on sys.platform, run when the module is loaded.
ResolvePlatform ==
    /\ pc = "match"
    /\ log' = Append(log, "resolve")
    /\ LET r == ResolvePlatformNames(platform) IN
       IF r.ok
       THEN /\ LIB_SOURCE_NAME' = r.source
            /\ LIB_TARGET_NAME' = r.target
            /\ pc' = "run_cargo"
            /\ UNCHANGED <<raised, exitCode>>
       ELSE /\ Raise("Exception", <<"unsupported platform ", platform>>)
            /\ UNCHANGED <<LIB_SOURCE_NAME, LIB_TARGET_NAME>>
    /\ UNCHANGED <<platform, returncode, built, fs, cargoInstalled, luaDir, run,
                   start, prevExit>>

\* What the cargo child process may leave at target/release/<LIB_SOURCE_NAME>:
\* the file as it was, or a file with any content.
CargoOutputs(f) == {f} \cup {File(d) : d \in Contents}

\* Line 24: subprocess.run(['cargo', 'build', '--release']).
RunCargo ==
    /\ pc = "run_cargo"
    /\ log' = Append(log, "build")
    /\ IF ~cargoInstalled
       THEN /\ Raise("FileNotFoundError", <<"cargo">>)
            /\ UNCHANGED <<returncode, built, fs>>
       ELSE /\ \E rc \in ReturnCodes, out \in CargoOutputs(fs[SourcePath]) :
                 /\ returncode' = <<rc>>
                 /\ built' = <<out>>
                 /\ fs' = [fs EXCEPT ![SourcePath] = out]
            /\ pc' = "check_rc"
            /\ UNCHANGED <<raised, exitCode>>
    /\ UNCHANGED <<platform, LIB_SOURCE_NAME, LIB_TARGET_NAME, cargoInstalled,
                   luaDir, run, start, prevExit>>

\* Variant: the test is inverted (== 0 instead of != 0).
CheckReturnCode_Inverted ==
    /\ pc = "check_rc"
    /\ IF returncode[1] = 0
       THEN Raise("Exception", <<"cargo build failed">>)
       ELSE /\ pc' = "copy"
            /\ UNCHANGED <<raised, exitCode>>
    /\ UNCHANGED <<platform, LIB_SOURCE_NAME, LIB_TARGET_NAME, returncode, built,
                   fs, cargoInstalled, luaDir, log, run, start, prevExit>>

\* Variant: a failed build is reported but main() goes on to the copy.
CheckReturnCode_WarnOnly ==
    /\ pc = "check_rc"
    /\ IF returncode[1] # 0
       THEN raised' = <<[type |-> "Exception", msg |-> <<"cargo build failed">>]>>
       ELSE UNCHANGED raised
    /\ pc' = "copy"
    /\ UNCHANGED <<platform, LIB_SOURCE_NAME, LIB_TARGET_NAME, returncode, built,
                   fs, cargoInstalled, luaDir, exitCode, log, run, start, prevExit>>

\* Variant: a failed build is tried once more before giving up.
CheckReturnCode_Retry ==
    /\ pc = "check_rc"
    /\ IF returncode[1] # 0
       THEN IF Count("build") < 2
            THEN /\ pc' = "run_cargo"
                 /\ UNCHANGED <<raised, exitCode>>
            ELSE Raise("Exception", <<"cargo build failed">>)
       ELSE /\ pc' = "copy"
            /\ UNCHANGED <<raised, exitCode>>
    /\ UNCHANGED <<platform, LIB_SOURCE_NAME, LIB_TARGET_NAME, returncode, built,
                   fs, cargoInstalled, luaDir, log, run, start, prevExit>>

\* Lines 25-26: if cargo.returncode != 0: raise Exception('cargo build failed').
CheckReturnCode ==
    /\ pc = "check_rc"
    /\ IF returncode[1] # 0
       THEN Raise("Exception", <<"cargo build failed">>)
       ELSE /\ pc' = "copy"
            /\ UNCHANGED <<raised, exitCode>>
    /\ UNCHANGED <<platform, LIB_SOURCE_NAME, LIB_TARGET_NAME, returncode, built,
                   fs, cargoInstalled, luaDir, log, run, start, prevExit>>

Prefix(d, k) == [i \in 1..k |-> d[i]]

\* Variant: the destination is opened for writing before the source is read.
ShutilCopy_DstFirst(fsys, src, dst, dir) ==
    IF dir = "missing"
    THEN {[fs |-> fsys, err |-> <<"FileNotFoundError", dst>>]}
    ELSE IF ~fsys[src].exists
    THEN {[fs |-> [fsys EXCEPT ![dst] = File(<<>>)],
           err |-> <<"FileNotFoundError", src>>]}
    ELSE IF dir = "nospace"
    THEN {[fs |-> fsys, err |-> <<"OSError", dst>>]}
         \cup {[fs |-> [fsys EXCEPT ![dst] = File(Prefix(fsys[src].data, k))],
                err |-> <<"OSError", dst>>] : k \in 0..(Len(fsys[src].data) - 1)}
    ELSE {[fs |-> [fsys EXCEPT ![dst] = File(fsys[src].data)], err |-> <<>>]}

\* Variant: a completed copy drops the last byte.
ShutilCopy_ShortWrite(fsys, src, dst, dir) ==
    IF ~fsys[src].exists
    THEN {[fs |-> fsys, err |-> <<"FileNotFoundError", src>>]}
    ELSE IF dir = "missing"
    THEN {[fs |-> fsys, err |-> <<"FileNotFoundError", dst>>]}
    ELSE IF dir = "nospace"
    THEN {[fs |-> fsys, err |-> <<"OSError", dst>>]}
         \cup {[fs |-> [fsys EXCEPT ![dst] = File(Prefix(fsys[src].data, k))],
                err |-> <<"OSError", dst>>] : k \in 0..(Len(fsys[src].data) - 1)}
    ELSE {[fs |-> [fsys EXCEPT ![dst] =
                      File(Prefix(fsys[src].data,
                                  IF Len(fsys[src].data) = 0 THEN 0
                                  ELSE Len(fsys[src].data) - 1))],
           err |-> <<>>]}

\* Variant: shutil.move, which removes the source once it is copied.
ShutilCopy_Move(fsys, src, dst, dir) ==
    IF ~fsys[src].exists
    THEN {[fs |-> fsys, err |-> <<"FileNotFoundError", src>>]}
    ELSE IF dir = "missing"
    THEN {[fs |-> fsys, err |-> <<"FileNotFoundError", dst>>]}
    ELSE IF dir = "nospace"
    THEN {[fs |-> fsys, err |-> <<"OSError", dst>>]}
         \cup {[fs |-> [fsys EXCEPT ![dst] = File(Prefix(fsys[src].data, k))],
                err |-> <<"OSError", dst>>] : k \in 0..(Len(fsys[src].data) - 1)}
    ELSE {[fs |-> [fsys EXCEPT ![dst] = File(fsys[src].data), ![src] = NoFile],
           err |-> <<>>]}

\* Variant: the destination is opened in append mode.
ShutilCopy_Append(fsys, src, dst, dir) ==
    IF ~fsys[src].exists
    THEN {[fs |-> fsys, err |-> <<"FileNotFoundError", src>>]}
    ELSE IF dir = "missing"
    THEN {[fs |-> fsys, err |-> <<"FileNotFoundError", dst>>]}
    ELSE IF dir = "nospace"
    THEN {[fs |-> fsys, err |-> <<"OSError", dst>>]}
    ELSE {[fs |-> [fsys EXCEPT ![dst] = File(fsys[dst].data \o fsys[src].data)],
           err |-> <<>>]}

\* shutil.copy(src, dst): the source is opened for reading first, then the
\* destination is opened for writing (created or truncated), then the bytes
\* are copied.  Each outcome is the file system left behind and the exception
\* raised (<<>> when the copy completed).
ShutilCopy(fsys, src, dst, dir) ==
    IF ~fsys[src].exists
    THEN {[fs |-> fsys, err |-> <<"FileNotFoundError", src>>]}
    ELSE IF dir = "missing"
    THEN {[fs |-> fsys, err |-> <<"FileNotFoundError", dst>>]}
    ELSE IF dir = "nospace"
    THEN {[fs |-> fsys, err |-> <<"OSError", dst>>]}
         \cup {[fs |-> [fsys EXCEPT ![dst] = File(Prefix(fsys[src].data, k))],
                err |-> <<"OSError", dst>>] : k \in 0..(Len(fsys[src].data) - 1)}
    ELSE {[fs |-> [fsys EXCEPT ![dst] = File(fsys[src].data)], err |-> <<>>]}

\* Line 27: the copy, and the end of the script when it returns.
Copy ==
    /\ pc = "copy"
    /\ log' = Append(log, "publish")
    /\ \E o \in ShutilCopy(fs, SourcePath, TargetPath, luaDir) :
          /\ fs' = o.fs
          /\ IF o.err # <<>>
             THEN Raise(o.err[1], <<o.err[2]>>)
             ELSE /\ pc' = "exited"
                  /\ exitCode' = <<ExitSuccess>>
                  /\ UNCHANGED raised
    /\ UNCHANGED <<platform, LIB_SOURCE_NAME, LIB_TARGET_NAME, returncode, built,
                   cargoInstalled, luaDir, run, start, prevExit>>

\* Lines 29-30: the script is started again on the same machine, in the same
\* working directory.
Rerun ==
    /\ pc = "exited"
    /\ run < MaxRuns
    /\ pc' = "match"
    /\ LIB_SOURCE_NAME' = Unbound
    /\ LIB_TARGET_NAME' = Unbound
    /\ returncode' = <<>>
    /\ built' = <<>>
    /\ raised' = <<>>
    /\ exitCode' = <<>>
    /\ log' = <<>>
    /\ run' = run + 1
    /\ start' = fs
    /\ prevExit' = exitCode
    /\ UNCHANGED <<platform, fs, cargoInstalled, luaDir>>

Next ==
    \/ ResolvePlatform
    \/ RunCargo
    \/ CheckReturnCode
    \/ Copy
    \/ Rerun

Spec == Init /\ [][Next]_vars

\* ================================================================ claims

Pipeline == <<"resolve", "build", "publish">>

BuildFailed == returncode # <<>> /\ returncode # <<0>>

NoException == raised = <<>>

Exception(type, msg) == <<[type |-> type, msg |-> msg]>>

\* C1: a copy to lua/<LIB_TARGET_NAME> is started only after cargo returned
\* status 0; when cargo returned a non-zero status the copy is never started
\* and every file under lua/ is as it was when the run began.
C1_NoPublishAfterFailedBuild ==
    /\ Started("publish") => returncode = <<0>>
    /\ BuildFailed => /\ ~Started("publish")
                      /\ \A t \in TargetPaths : fs[t] = start[t]

C1_Witness ==
    /\ Exited
    /\ returncode = <<101>>
    /\ built # <<>> /\ built[1].exists
    /\ ~fs[TargetPath].exists

\* C2: on a platform the match has no case for, the run ends in the match
\* with Exception('unsupported platform <id>') and exit status 1; cargo was
\* not started, the copy was not started and the file system is untouched.
C2_UnsupportedPlatform ==
    (platform \notin Supported /\ pc # "match") =>
        /\ Exited
        /\ raised = Exception("Exception", <<"unsupported platform ", platform>>)
        /\ exitCode # <<>> /\ exitCode[1] # 0
        /\ log = <<"resolve">>
        /\ returncode = <<>>
        /\ built = <<>>
        /\ fs = start

C2_Witness ==
    /\ platform = "freebsd"
    /\ Exited
    /\ \E p \in Paths : fs[p].exists

\* C3: after the match, LIB_SOURCE_NAME and LIB_TARGET_NAME are exactly the
\* pair the table gives for the platform.
C3_PlatformTable ==
    pc # "match" =>
        /\ platform = "linux" =>
              /\ LIB_SOURCE_NAME = "libwikiplugin_internal.so"
              /\ LIB_TARGET_NAME = "wikiplugin_internal.so"
        /\ platform = "darwin" =>
              /\ LIB_SOURCE_NAME = "libwikiplugin_internal.dylib"
              /\ LIB_TARGET_NAME = "wikiplugin_internal.so"
        /\ platform = "win32" =>
              /\ LIB_SOURCE_NAME = "wikiplugin_internal.dll"
              /\ LIB_TARGET_NAME = "wikiplugin_internal.dll"

C3_Witness ==
    /\ platform = "darwin"
    /\ pc = "run_cargo"
    /\ LIB_SOURCE_NAME = "libwikiplugin_internal.dylib"

\* C4: the steps of a run start in the order resolve, build, publish; once a
\* step has failed the process has exited with a non-zero status, and no
\* further step of that run is started.
C4_State ==
    /\ Len(log) <= Len(Pipeline)
    /\ log = Prefix(Pipeline, Len(log))
    /\ ~NoException => /\ Exited
                       /\ exitCode # <<>> /\ exitCode[1] # 0
    /\ BuildFailed => ~Started("publish")

C4_Step ==
    log' # log =>
        \/ run' = run + 1 /\ log' = <<>>
        \/ /\ run' = run
           /\ NoException /\ ~Exited /\ ~BuildFailed
           /\ Len(log) < Len(Pipeline)
           /\ log' = Prefix(Pipeline, Len(log) + 1)

C4_StrictSequence == []C4_State /\ [][C4_Step]_vars

C4_Witness ==
    /\ Exited
    /\ log = <<"resolve", "build">>
    /\ BuildFailed
    /\ exitCode = <<1>>

AllSucceeded ==
    /\ platform \in Supported
    /\ returncode = <<0>>
    /\ Started("publish")
    /\ NoException

\* C5 as stated: exit status 0 exactly when all three steps succeed, and when
\* cargo exits with non-zero status s the process exits with that status.
C5_Original ==
    Exited =>
        /\ exitCode = <<0>> <=> AllSucceeded
        /\ BuildFailed => exitCode = returncode

\* C5: exit status 0 exactly when all three steps succeed; on any failure the
\* status is 1, the status of an uncaught exception, whatever non-zero status
\* cargo returned.
C5_ExitCode ==
    Exited =>
        /\ exitCode = <<0>> <=> AllSucceeded
        /\ ~AllSucceeded => exitCode = <<1>>
        /\ BuildFailed => exitCode = <<1>>

C5_Witness ==
    /\ Exited
    /\ returncode = <<101>>
    /\ exitCode = <<1>>

\* C6: when cargo returned 0 but left no file at
\* target/release/<LIB_SOURCE_NAME>, the copy raises FileNotFoundError for
\* that path, the process exits non-zero and lua/<LIB_TARGET_NAME> is as it
\* was when the run began (absent if it was absent).
C6_MissingArtifact ==
    (Exited /\ returncode = <<0>> /\ ~built[1].exists) =>
        /\ Started("publish")
        /\ raised = Exception("FileNotFoundError", <<SourcePath>>)
        /\ exitCode # <<>> /\ exitCode[1] # 0
        /\ fs[TargetPath] = start[TargetPath]

C6_Witness ==
    /\ Exited
    /\ returncode = <<0>>
    /\ ~built[1].exists
    /\ luaDir = "ok"
    /\ ~fs[TargetPath].exists

\* C7: on a supported platform, when cargo returned 0 having left a file at
\* target/release/<LIB_SOURCE_NAME> and lua/ can be written, the run ends
\* with exit status 0 and lua/<LIB_TARGET_NAME> holds the bytes of the built
\* artifact; on Linux these are the two paths of the table.
C7_Published ==
    (Exited /\ returncode = <<0>> /\ built[1].exists /\ luaDir = "ok") =>
        /\ exitCode = <<0>>
        /\ NoException
        /\ fs[TargetPath].exists
        /\ fs[TargetPath].data = built[1].data
        /\ platform = "linux" =>
              /\ fs[<<"lua", "wikiplugin_internal.so">>].data =
                    fs[<<"target", "release", "libwikiplugin_internal.so">>].data
              /\ fs[<<"lua", "wikiplugin_internal.so">>].data = built[1].data

C7_Witness ==
    /\ Exited
    /\ platform = "linux"
    /\ exitCode = <<0>>
    /\ built[1].data # <<>>
    /\ start[TargetPath] # fs[TargetPath]
    /\ fs[<<"lua", "wikiplugin_internal.so">>].data = built[1].data

\* C8: in a run cargo is started at most once and the copy at most once.
C8_AtMostOnce ==
    /\ Count("build") <= 1
    /\ Count("publish") <= 1
    /\ Count("resolve") <= 1

C8_Witness ==
    /\ Exited
    /\ BuildFailed
    /\ Count("build") = 1

\* C9: once cargo has returned, the file at target/release/<LIB_SOURCE_NAME>
\* stays as cargo left it, in particular after a failed copy, and no other
\* file under target/release is touched by the run.
C9_ArtifactKept ==
    /\ built # <<>> => fs[SourcePath] = built[1]
    /\ \A p \in SourcePaths :
          (LIB_SOURCE_NAME = Unbound \/ p # SourcePath) => fs[p] = start[p]

C9_Witness ==
    /\ Exited
    /\ Started("publish")
    /\ ~NoException
    /\ built[1].exists
    /\ fs[SourcePath] = built[1]

\* C10: a file at lua/<LIB_TARGET_NAME> from before the run is unchanged
\* when the run ends without starting the copy, and is replaced by the built
\* artifact when the run succeeds; a second successful run over the same
\* build output leaves the published file as the first left it.
C10_Overwrite ==
    Exited =>
        /\ ~Started("publish") => \A t \in TargetPaths : fs[t] = start[t]
        /\ exitCode = <<0>> => fs[TargetPath] = built[1]
        /\ (run >= 2 /\ exitCode = <<0>> /\ prevExit = <<0>>
               /\ built[1] = start[SourcePath]) =>
              fs[TargetPath] = start[TargetPath]

C10_Witness ==
    /\ Exited
    /\ run = 2
    /\ exitCode = <<0>>
    /\ prevExit = <<0>>
    /\ built[1] = start[SourcePath]
    /\ fs[TargetPath].data # <<>>
    /\ fs[TargetPath] = start[TargetPath]

====
